---- MODULE Spec2Model ----
(***************************************************************************)
(* LruSlab (src/src/lib.rs): a slab of slots that carries an intrusive     *)
(* doubly-linked recency list and a singly-linked free list in one array.  *)
(* Slot indices are 0-based, as in the source.  The index type u32 is      *)
(* scaled down to IndexBits bits; all index arithmetic wraps at that       *)
(* width.  Where a build with debug assertions and one without differ (a   *)
(* debug_assert, an arithmetic overflow), the operators take a parameter   *)
(* debug and the actions try both builds.  A call that panics ends the     *)
(* program: status becomes "panicked" and nothing runs after it.           *)
(***************************************************************************)
EXTENDS Integers, Sequences, FiniteSets, TLC

\* ------------------------------------------------------------------ bounds
\* Width of the index type in bits (u32 in the source, scaled down).
IndexBits == 5
\* Largest capacity handed to with_capacity in Init.
MaxInitCap == 3
\* An insert that has to grow is explored only when the grown array would
\* hold at most MaxCap slots.
MaxCap == 4

\* The payload type T, and Option::None.
Values == {"a", "b"}
NoValue == "None"

RECURSIVE Pow2(_)
Pow2(n) == IF n = 0 THEN 1 ELSE 2 * Pow2(n - 1)

\* const NONE: u32 = u32::MAX
NONE == Pow2(IndexBits) - 1

\* Wrapping arithmetic of the index type (release builds).
Wrap(x) == x % (NONE + 1)

\* struct Slot<T> { value, next, prev }
Slot(v, n, p) == [value |-> v, next |-> n, prev |-> p]

\* The (0..capacity).map(..) / (len..cap).map(..) closures: a chain of empty
\* slots lo, lo+1, ..., hi-1 linked through next, the last one ending in NONE.
FreshSlot(n, hi) == Slot(NoValue, IF n + 1 = hi THEN NONE ELSE n + 1, NONE)

\* struct LruSlab<T> { slots, head, tail, free, len }
LruSlab(sl, h, t, f, l) == [slots |-> sl, head |-> h, tail |-> t, free |-> f, len |-> l]

\* LruSlab::with_capacity: assert!(capacity != u32::max_value())
with_capacity_asserts(cap) == cap # NONE

\* LruSlab::with_capacity, past its assertion
with_capacity(cap) ==
    LruSlab([n \in 0..(cap - 1) |-> FreshSlot(n, cap)],
            NONE, NONE, IF cap = 0 THEN NONE ELSE 0, 0)

\* LruSlab::capacity: self.slots.len()
capacity(self) == Cardinality(DOMAIN self.slots)

\* LruSlab::len
len_(self) == self.len

\* LruSlab::is_empty
is_empty(self) == self.len = 0

\* Indexing self.slots[i] panics when this is false.
InBounds(self, i) == i \in DOMAIN self.slots

\* LruSlab::alloc with the free head left in place (faulty variant).
alloc_keeps_free(self) ==
    IF self.free = NONE
    THEN [self |-> self, ret |-> NONE]
    ELSE [self |-> self, ret |-> self.free]

\* LruSlab::alloc that reports exhaustion one slot early (faulty variant).
alloc_gives_up_early(self) ==
    IF self.free = NONE \/ self.slots[self.free].next = NONE
    THEN [self |-> self, ret |-> NONE]
    ELSE [self |-> [self EXCEPT !.free = self.slots[self.free].next],
          ret |-> self.free]

\* LruSlab::alloc: pop the free list; ret = NONE stands for Option::None.
alloc(self) ==
    IF self.free = NONE
    THEN [self |-> self, ret |-> NONE]
    ELSE [self |-> [self EXCEPT !.free = self.slots[self.free].next],
          ret |-> self.free]

\* LruSlab::link_at_head that forgets to set the old head's prev (faulty variant).
link_at_head_no_prev(self, slot) ==
    LET s1 == IF self.head = NONE
              THEN [self EXCEPT !.slots[slot].next = NONE, !.tail = slot]
              ELSE [self EXCEPT !.slots[slot].next = self.head]
    IN  [s1 EXCEPT !.slots[slot].prev = NONE, !.head = slot]

\* LruSlab::link_at_head that appends at the tail instead (faulty variant).
link_at_tail(self, slot) ==
    LET s1 == IF self.tail = NONE
              THEN [self EXCEPT !.slots[slot].prev = NONE, !.head = slot]
              ELSE [self EXCEPT !.slots[slot].prev = self.tail,
                                !.slots[self.tail].next = slot]
    IN  [s1 EXCEPT !.slots[slot].next = NONE, !.tail = slot]

\* LruSlab::link_at_head
link_at_head(self, slot) ==
    LET s1 == IF self.head = NONE
              THEN [self EXCEPT !.slots[slot].next = NONE, !.tail = slot]
              ELSE LET s0 == [self EXCEPT !.slots[slot].next = self.head]
                   IN  [s0 EXCEPT !.slots[self.head].prev = slot]
    IN  [s1 EXCEPT !.slots[slot].prev = NONE, !.head = slot]

\* LruSlab::unlink that never updates tail (faulty variant).
unlink_keeps_tail(self, slot) ==
    LET p  == self.slots[slot].prev
        s1 == IF p # NONE
              THEN [self EXCEPT !.slots[p].next = self.slots[slot].next]
              ELSE [self EXCEPT !.head = self.slots[slot].next]
        n  == s1.slots[slot].next
    IN  IF n # NONE
        THEN [s1 EXCEPT !.slots[n].prev = s1.slots[slot].prev]
        ELSE s1

\* LruSlab::unlink that leaves the predecessor's next link alone (faulty
\* variant).
unlink_skips_pred(self, slot) ==
    LET p  == self.slots[slot].prev
        s1 == IF p # NONE
              THEN self
              ELSE [self EXCEPT !.head = self.slots[slot].next]
        n  == s1.slots[slot].next
    IN  IF n # NONE
        THEN [s1 EXCEPT !.slots[n].prev = s1.slots[slot].prev]
        ELSE [s1 EXCEPT !.tail = s1.slots[slot].prev]

\* LruSlab::unlink; the two statements run in order, the second reading the
\* slots as the first left them.
unlink(self, slot) ==
    LET p  == self.slots[slot].prev
        s1 == IF p # NONE
              THEN [self EXCEPT !.slots[p].next = self.slots[slot].next]
              ELSE [self EXCEPT !.head = self.slots[slot].next]
        n  == s1.slots[slot].next
    IN  IF n # NONE
        THEN [s1 EXCEPT !.slots[n].prev = s1.slots[slot].prev]
        ELSE [s1 EXCEPT !.tail = s1.slots[slot].prev]

\* LruSlab::freshen that takes the already-freshest shortcut for every slot
\* and relinks nothing (faulty variant).
freshen_noop(self, slot, debug) == [self |-> self, panic |-> FALSE]

\* LruSlab::freshen without the shortcut: it unlinks and relinks every slot
\* it is given (faulty variant).
freshen_always_relinks(self, slot, debug) ==
    IF ~InBounds(self, slot)
    THEN [self |-> self, panic |-> TRUE]
    ELSE [self |-> link_at_head(unlink(self, slot), slot), panic |-> FALSE]

\* LruSlab::freshen.  debug_assert_eq!(self.head, slot) panics in builds with
\* debug assertions only.
freshen(self, slot, debug) ==
    IF ~InBounds(self, slot)
    THEN [self |-> self, panic |-> TRUE]
    ELSE IF self.slots[slot].prev = NONE
    THEN [self |-> self, panic |-> debug /\ self.head # slot]
    ELSE [self |-> link_at_head(unlink(self, slot), slot), panic |-> FALSE]

\* LruSlab::peek: slots[slot].value.as_ref().unwrap()
peek(self, slot) ==
    IF InBounds(self, slot) /\ self.slots[slot].value # NoValue
    THEN [self |-> self, ret |-> self.slots[slot].value, panic |-> FALSE]
    ELSE [self |-> self, ret |-> NoValue, panic |-> TRUE]

\* LruSlab::peek_mut that marks the slot as most recently used, as get_mut
\* does (faulty variant).
peek_mut_freshens(self, slot) ==
    IF InBounds(self, slot) /\ self.slots[slot].value # NoValue
    THEN [self |-> freshen(self, slot, FALSE).self,
          ret |-> self.slots[slot].value, panic |-> FALSE]
    ELSE [self |-> self, ret |-> NoValue, panic |-> TRUE]

\* LruSlab::peek_mut: slots[slot].value.as_mut().unwrap(); the reference is
\* returned and nothing is written through it here.
peek_mut(self, slot) ==
    IF InBounds(self, slot) /\ self.slots[slot].value # NoValue
    THEN [self |-> self, ret |-> self.slots[slot].value, panic |-> FALSE]
    ELSE [self |-> self, ret |-> NoValue, panic |-> TRUE]

\* LruSlab::get_mut: freshen, then peek_mut
get_mut(self, slot, debug) ==
    LET f == freshen(self, slot, debug)
    IN  IF f.panic
        THEN [self |-> f.self, ret |-> NoValue, panic |-> TRUE]
        ELSE peek_mut(f.self, slot)

\* LruSlab::lru; ret = NONE stands for Option::None.
lru(self, debug) ==
    IF self.tail = NONE
    THEN [self |-> self, ret |-> NONE, panic |-> debug /\ self.head # NONE]
    ELSE [self |-> self, ret |-> self.tail, panic |-> FALSE]

\* The growth arm of insert: let cap = 2 * len.max(2)
GrownCap(len) == 2 * (IF len > 2 THEN len ELSE 2)

\* Growth that drops the payloads of the old slots (faulty variant).
grow_drops_values(self, debug) ==
    LET len == capacity(self)
        cap == Wrap(GrownCap(len))
    IN  [self |-> [self EXCEPT
                     !.slots = [n \in (DOMAIN self.slots) \cup (len..(cap - 1)) |->
                                  IF n < len
                                  THEN [self.slots[n] EXCEPT !.value = NoValue]
                                  ELSE FreshSlot(n, cap)],
                     !.free = Wrap(len + 1)],
         ret |-> len, panic |-> FALSE]

\* Growth by one slot only (faulty variant).
grow_by_one(self, debug) ==
    LET len == capacity(self)
        cap == len + 1
    IN  [self |-> [self EXCEPT
                     !.slots = [n \in (DOMAIN self.slots) \cup (len..(cap - 1)) |->
                                  IF n < len THEN self.slots[n] ELSE FreshSlot(n, cap)],
                     !.free = NONE],
         ret |-> len, panic |-> FALSE]

\* Growth whose doubling saturates at the largest index instead of
\* overflowing (faulty variant).
grow_saturating(self, debug) ==
    LET len == capacity(self)
        cap == IF GrownCap(len) > NONE THEN NONE ELSE GrownCap(len)
    IN  [self |-> [self EXCEPT
                     !.slots = [n \in (DOMAIN self.slots) \cup (len..(cap - 1)) |->
                                  IF n < len THEN self.slots[n] ELSE FreshSlot(n, cap)],
                     !.free = IF len + 1 = cap THEN NONE ELSE len + 1],
         ret |-> len, panic |-> FALSE]

\* Growth that leaves the slot it hands out at the head of the free list
\* (faulty variant).
grow_free_at_len(self, debug) ==
    LET len == capacity(self)
        cap == Wrap(GrownCap(len))
    IN  [self |-> [self EXCEPT
                     !.slots = [n \in (DOMAIN self.slots) \cup (len..(cap - 1)) |->
                                  IF n < len THEN self.slots[n] ELSE FreshSlot(n, cap)],
                     !.free = len],
         ret |-> len, panic |-> FALSE]

\* The None arm of insert's match: rebuild the array with the old slots copied
\* and slots len..cap appended, point free at len + 1 and hand out len.  The
\* multiplication overflows the index type when 2 * len.max(2) > NONE: a panic
\* with debug assertions, a wrapped cap without.
grow(self, debug) ==
    LET len == capacity(self)
        cap == Wrap(GrownCap(len))
    IN  IF debug /\ GrownCap(len) > NONE
        THEN [self |-> self, ret |-> NONE, panic |-> TRUE]
        ELSE [self |-> [self EXCEPT
                          !.slots = [n \in (DOMAIN self.slots) \cup (len..(cap - 1)) |->
                                       IF n < len THEN self.slots[n] ELSE FreshSlot(n, cap)],
                          !.free = Wrap(len + 1)],
              ret |-> len, panic |-> FALSE]

\* LruSlab::insert
insert(self, value, debug) ==
    LET a  == alloc(self)
        g  == IF a.ret # NONE THEN [self |-> a.self, ret |-> a.ret, panic |-> FALSE]
              ELSE grow(self, debug)
        s1 == g.self
        id == g.ret
    IN  IF g.panic
        THEN [self |-> s1, ret |-> NONE, panic |-> TRUE]
        ELSE IF ~InBounds(s1, id)
        THEN [self |-> s1, ret |-> NONE, panic |-> TRUE]
        ELSE IF debug /\ s1.slots[id].value # NoValue
        THEN [self |-> s1, ret |-> NONE, panic |-> TRUE]
        ELSE LET s2 == [s1 EXCEPT !.slots[id].value = value]
                 s3 == link_at_head(s2, id)
             IN  [self |-> [s3 EXCEPT !.len = Wrap(s3.len + 1)],
                  ret |-> id, panic |-> FALSE]

\* LruSlab::remove that pushes the slot at the far end of the free list
\* (faulty variant: FIFO reuse).
RECURSIVE FreeEnd(_, _)
FreeEnd(self, i) == IF self.slots[i].next = NONE THEN i ELSE FreeEnd(self, self.slots[i].next)

remove_fifo(self, slot, debug) ==
    IF ~InBounds(self, slot) \/ self.slots[slot].value = NoValue
    THEN [self |-> self, ret |-> NoValue, panic |-> TRUE]
    ELSE LET s1 == unlink(self, slot)
             s2 == IF s1.free = NONE
                   THEN [s1 EXCEPT !.free = slot]
                   ELSE [s1 EXCEPT !.slots[FreeEnd(s1, s1.free)].next = slot]
             s3 == [s2 EXCEPT !.slots[slot].next = NONE, !.slots[slot].prev = NONE,
                              !.len = Wrap(s2.len - 1), !.slots[slot].value = NoValue]
         IN  [self |-> s3, ret |-> self.slots[slot].value, panic |-> FALSE]

\* LruSlab::remove that does not decrement len (faulty variant).
remove_keeps_len(self, slot, debug) ==
    IF ~InBounds(self, slot) \/ self.slots[slot].value = NoValue
    THEN [self |-> self, ret |-> NoValue, panic |-> TRUE]
    ELSE LET s1 == unlink(self, slot)
             s2 == [s1 EXCEPT !.slots[slot].next = s1.free, !.slots[slot].prev = NONE,
                              !.free = slot, !.slots[slot].value = NoValue]
         IN  [self |-> s2, ret |-> self.slots[slot].value, panic |-> FALSE]

\* LruSlab::remove that hands back whatever value.take() gives, without the
\* expect (faulty variant).
remove_no_expect(self, slot, debug) ==
    IF ~InBounds(self, slot)
    THEN [self |-> self, ret |-> NoValue, panic |-> TRUE]
    ELSE LET s1 == unlink(self, slot)
             s2 == [s1 EXCEPT !.slots[slot].next = s1.free, !.slots[slot].prev = NONE,
                              !.free = slot, !.len = Wrap(s1.len - 1)]
         IN  [self |-> [s2 EXCEPT !.slots[slot].value = NoValue],
              ret |-> s2.slots[slot].value, panic |-> FALSE]

\* LruSlab::remove that looks for the value before it touches any link
\* (faulty variant).
remove_checks_first(self, slot, debug) ==
    IF ~InBounds(self, slot) \/ self.slots[slot].value = NoValue
    THEN [self |-> self, ret |-> NoValue, panic |-> TRUE]
    ELSE LET s1 == unlink(self, slot)
             s2 == [s1 EXCEPT !.slots[slot].next = s1.free, !.slots[slot].prev = NONE,
                              !.free = slot, !.len = Wrap(s1.len - 1),
                              !.slots[slot].value = NoValue]
         IN  [self |-> s2, ret |-> self.slots[slot].value, panic |-> FALSE]

\* LruSlab::remove.  The statements run in order: unlink, push on the free
\* list, len -= 1 (an overflow panic with debug assertions when len is 0),
\* and only then value.take().expect(..).
remove(self, slot, debug) ==
    IF ~InBounds(self, slot)
    THEN [self |-> self, ret |-> NoValue, panic |-> TRUE]
    ELSE LET s1 == unlink(self, slot)
             s2 == [s1 EXCEPT !.slots[slot].next = s1.free, !.slots[slot].prev = NONE,
                              !.free = slot]
         IN  IF debug /\ s2.len = 0
             THEN [self |-> s2, ret |-> NoValue, panic |-> TRUE]
             ELSE LET s3 == [s2 EXCEPT !.len = Wrap(s2.len - 1)]
                      v  == s3.slots[slot].value
                  IN  [self |-> [s3 EXCEPT !.slots[slot].value = NoValue],
                       ret |-> v, panic |-> v = NoValue]

\* ---------------------------------------------------------------- iterator
\* struct Iter<'a, T> { slots, head, tail, len }; slots is the borrowed array
\* of the container, which cannot change while the iterator is alive.
NoIter == [active |-> FALSE, head |-> NONE, tail |-> NONE, len |-> 0]

\* LruSlab::iter
iter(self) == [active |-> TRUE, head |-> self.head, tail |-> self.tail, len |-> self.len]

\* Iterator::next that does not count the item down (faulty variant).
iter_next_keeps_len(itr, sl) ==
    IF itr.len = 0
    THEN [it |-> itr, slot |-> NONE, ret |-> NoValue, panic |-> FALSE]
    ELSE IF itr.head \notin DOMAIN sl \/ sl[itr.head].value = NoValue
    THEN [it |-> itr, slot |-> NONE, ret |-> NoValue, panic |-> TRUE]
    ELSE [it |-> [itr EXCEPT !.head = sl[itr.head].next],
          slot |-> itr.head, ret |-> sl[itr.head].value, panic |-> FALSE]

\* <Iter as Iterator>::next; slot is the index whose payload is yielded.
iter_next(itr, sl) ==
    IF itr.len = 0
    THEN [it |-> itr, slot |-> NONE, ret |-> NoValue, panic |-> FALSE]
    ELSE IF itr.head \notin DOMAIN sl \/ sl[itr.head].value = NoValue
    THEN [it |-> itr, slot |-> NONE, ret |-> NoValue, panic |-> TRUE]
    ELSE [it |-> [itr EXCEPT !.head = sl[itr.head].next, !.len = Wrap(itr.len - 1)],
          slot |-> itr.head, ret |-> sl[itr.head].value, panic |-> FALSE]

\* <Iter as DoubleEndedIterator>::next_back
iter_next_back(itr, sl) ==
    IF itr.len = 0
    THEN [it |-> itr, slot |-> NONE, ret |-> NoValue, panic |-> FALSE]
    ELSE IF itr.tail \notin DOMAIN sl \/ sl[itr.tail].value = NoValue
    THEN [it |-> itr, slot |-> NONE, ret |-> NoValue, panic |-> TRUE]
    ELSE [it |-> [itr EXCEPT !.tail = sl[itr.tail].prev, !.len = Wrap(itr.len - 1)],
          slot |-> itr.tail, ret |-> sl[itr.tail].value, panic |-> FALSE]

\* cache.iter().collect(): the slot indices a fresh iterator yields through
\* next() until it returns None (or fails on a slot without a payload).
RECURSIVE Drain(_, _)
Drain(itr, sl) ==
    LET r == iter_next(itr, sl)
    IN  IF r.slot = NONE THEN <<>> ELSE <<r.slot>> \o Drain(r.it, sl)

\* cache.iter().rev().collect()
RECURSIVE DrainBack(_, _)
DrainBack(itr, sl) ==
    LET r == iter_next_back(itr, sl)
    IN  IF r.slot = NONE THEN <<>> ELSE <<r.slot>> \o DrainBack(r.it, sl)

\* ------------------------------------------------------------------- state
VARIABLES
    slots, head, tail, free, len,   \* the fields of the LruSlab
    status,                         \* "ok", or "panicked" once a call has panicked
    it,                             \* the live Iter borrowing the container, or NoIter
    last,                           \* the last call that took &mut self or stepped the Iter
    live,                           \* history: handle -> value, for values inserted and not removed
    recency,                        \* history: live handles, most recent insert/get_mut first
    net,                            \* history: successful inserts minus successful removes
    freed,                          \* history: handles removed and not yet handed out again, latest first
    itFront,                        \* history: items the live Iter yielded through next()
    itBack                          \* history: items it yielded through next_back()

slab  == <<slots, head, tail, free, len>>
ghost == <<live, recency, net, freed>>
itvars == <<it, itFront, itBack>>
vars  == <<slots, head, tail, free, len, status, it, last, live, recency, net, freed,
           itFront, itBack>>

Self == LruSlab(slots, head, tail, free, len)

SetSelf(s) ==
    /\ slots' = s.slots
    /\ head' = s.head
    /\ tail' = s.tail
    /\ free' = s.free
    /\ len' = s.len

Without(seq, x) == SelectSeq(seq, LAMBDA y : y # x)

\* The 1-based position of x in seq, 0 when it is not there.
Pos(seq, x) == IF \E i \in DOMAIN seq : seq[i] = x
               THEN CHOOSE i \in DOMAIN seq : seq[i] = x
               ELSE 0

\* A call as recorded in last: arg is the slot passed (NONE if none), ret the
\* index returned (NONE if none), val the payload passed or returned; and, of
\* the state the call started in: pos, where arg stood in recency; nfreed,
\* how many freed handles were waiting; cap, the capacity.
Call(op, arg, ret, val) ==
    [op |-> op, arg |-> arg, ret |-> ret, val |-> val,
     pos |-> Pos(recency, arg), nfreed |-> Len(freed), cap |-> capacity(Self)]

Restrict(f, S) == [x \in S |-> f[x]]

\* let mut cache = LruSlab::with_capacity(capacity), the assertion passing
Init ==
    /\ \E cap \in 0..MaxInitCap :
          /\ cap # NONE
          /\ slots = with_capacity(cap).slots
          /\ head = with_capacity(cap).head
          /\ tail = with_capacity(cap).tail
          /\ free = with_capacity(cap).free
          /\ len = with_capacity(cap).len
          /\ last = [op |-> "with_capacity", arg |-> cap, ret |-> NONE,
                     val |-> NoValue, pos |-> 0, nfreed |-> 0, cap |-> 0]
    /\ status = "ok"
    /\ it = NoIter
    /\ live = <<>>
    /\ recency = <<>>
    /\ net = 0
    /\ freed = <<>>
    /\ itFront = <<>>
    /\ itBack = <<>>

\* A call that needs &mut self: the program is running and no Iter borrows it.
Mutable == status = "ok" /\ ~it.active

\* A call that panicked: the program stops with the container as the call
\* left it.
Panicked(op, arg) ==
    /\ status' = "panicked"
    /\ last' = Call(op, arg, NONE, NoValue)

\* cache.insert(value), whatever the capacity
InsertCall(value) ==
    /\ Mutable
    /\ \E debug \in BOOLEAN :
          LET r == insert(Self, value, debug)
          IN  /\ SetSelf(r.self)
              /\ IF r.panic
                 THEN Panicked("insert", NONE) /\ UNCHANGED ghost
                 ELSE /\ status' = status
                      /\ last' = Call("insert", NONE, r.ret, value)
                      /\ live' = (r.ret :> value) @@ live
                      /\ recency' = <<r.ret>> \o Without(recency, r.ret)
                      /\ net' = net + 1
                      /\ freed' = IF freed = <<>> THEN freed ELSE Tail(freed)
    /\ UNCHANGED itvars

\* cache.insert(value), growth explored up to MaxCap slots
Insert(value) ==
    /\ free # NONE \/ GrownCap(capacity(Self)) <= MaxCap
    /\ InsertCall(value)

\* cache.remove(slot)
Remove(slot) ==
    /\ Mutable
    /\ \E debug \in BOOLEAN :
          LET r == remove(Self, slot, debug)
          IN  /\ SetSelf(r.self)
              /\ IF r.panic
                 THEN Panicked("remove", slot) /\ UNCHANGED ghost
                 ELSE /\ status' = status
                      /\ last' = Call("remove", slot, NONE, r.ret)
                      /\ live' = Restrict(live, DOMAIN live \ {slot})
                      /\ recency' = Without(recency, slot)
                      /\ net' = net - 1
                      /\ freed' = <<slot>> \o freed
    /\ UNCHANGED itvars

\* cache.get_mut(slot)
GetMut(slot) ==
    /\ Mutable
    /\ \E debug \in BOOLEAN :
          LET r == get_mut(Self, slot, debug)
          IN  /\ SetSelf(r.self)
              /\ IF r.panic
                 THEN Panicked("get_mut", slot) /\ UNCHANGED ghost
                 ELSE /\ status' = status
                      /\ last' = Call("get_mut", slot, NONE, r.ret)
                      /\ recency' = <<slot>> \o Without(recency, slot)
                      /\ UNCHANGED <<live, net, freed>>
    /\ UNCHANGED itvars

\* A call that only reports: the container is whatever the call leaves, and
\* nothing is recorded unless it panics.
Query(op, arg, r) ==
    /\ SetSelf(r.self)
    /\ IF r.panic THEN Panicked(op, arg) ELSE UNCHANGED <<status, last>>
    /\ UNCHANGED <<ghost, itvars>>

\* cache.peek(slot)
Peek(slot) == Mutable /\ Query("peek", slot, peek(Self, slot))

\* cache.peek_mut(slot)
PeekMut(slot) == Mutable /\ Query("peek_mut", slot, peek_mut(Self, slot))

\* cache.lru()
Lru == Mutable /\ \E debug \in BOOLEAN : Query("lru", NONE, lru(Self, debug))

\* cache.len(), cache.capacity(), cache.is_empty(): they read self.len and
\* self.slots.len() and cannot panic
Report ==
    /\ Mutable
    /\ len_(Self) >= 0 /\ capacity(Self) >= 0 /\ is_empty(Self) \in BOOLEAN
    /\ UNCHANGED vars

\* let mut i = cache.iter()
IterNew ==
    /\ Mutable
    /\ it' = iter(Self)
    /\ itFront' = <<>>
    /\ itBack' = <<>>
    /\ last' = Call("iter", NONE, NONE, NoValue)
    /\ UNCHANGED <<slab, status, ghost>>

\* i.next()
IterNext ==
    /\ status = "ok" /\ it.active
    /\ LET r == iter_next(it, slots)
       IN  /\ it' = r.it
           /\ IF r.panic THEN Panicked("next", NONE)
              ELSE status' = status /\ last' = Call("next", NONE, r.slot, r.ret)
           /\ itFront' = IF r.slot = NONE THEN itFront
                         ELSE Append(itFront, [slot |-> r.slot, val |-> r.ret])
    /\ UNCHANGED <<slab, ghost, itBack>>

\* i.next_back()
IterNextBack ==
    /\ status = "ok" /\ it.active
    /\ LET r == iter_next_back(it, slots)
       IN  /\ it' = r.it
           /\ IF r.panic THEN Panicked("next_back", NONE)
              ELSE status' = status /\ last' = Call("next_back", NONE, r.slot, r.ret)
           /\ itBack' = IF r.slot = NONE THEN itBack
                        ELSE Append(itBack, [slot |-> r.slot, val |-> r.ret])
    /\ UNCHANGED <<slab, ghost, itFront>>

\* the Iter goes out of scope and the borrow ends
IterDrop ==
    /\ status = "ok" /\ it.active
    /\ it' = NoIter
    /\ itFront' = <<>>
    /\ itBack' = <<>>
    /\ last' = Call("drop", NONE, NONE, NoValue)
    /\ UNCHANGED <<slab, status, ghost>>

\* Slot arguments tried: every index of the array and the first one past it.
Slots == 0..capacity(Self)

Next ==
    \/ \E value \in Values : Insert(value)
    \/ \E slot \in Slots : Remove(slot)
    \/ \E slot \in Slots : GetMut(slot)
    \/ \E slot \in Slots : Peek(slot)
    \/ \E slot \in Slots : PeekMut(slot)
    \/ Lru
    \/ Report
    \/ IterNew
    \/ IterNext
    \/ IterNextBack
    \/ IterDrop

Spec == Init /\ [][Next]_vars

\* ------------------------------------------------- the whole index range
\* LruSlab::with_capacity(capacity) for every capacity of the index type; the
\* call with capacity = NONE fails its assertion and no container exists.
InitWide ==
    /\ \E cap \in 0..NONE :
          LET c == IF with_capacity_asserts(cap) THEN with_capacity(cap)
                   ELSE with_capacity(0)
          IN  /\ slots = c.slots
              /\ head = c.head
              /\ tail = c.tail
              /\ free = c.free
              /\ len = c.len
              /\ status = IF with_capacity_asserts(cap) THEN "ok" ELSE "panicked"
              /\ last = [op |-> "with_capacity", arg |-> cap, ret |-> NONE,
                         val |-> NoValue, pos |-> 0, nfreed |-> 0, cap |-> 0]
    /\ it = NoIter
    /\ live = <<>>
    /\ recency = <<>>
    /\ net = 0
    /\ freed = <<>>
    /\ itFront = <<>>
    /\ itBack = <<>>

\* The payload stored by the long runs of inserts.
FillValue == "a"

\* cache.insert(FillValue), growing as far as the index type goes
Fill == InsertCall(FillValue)

\* cache.remove(cache.lru().unwrap()), as a cache evicts once it is full and
\* the array cannot double again within the index type
Evict ==
    /\ free = NONE /\ tail # NONE
    /\ GrownCap(capacity(Self)) > NONE
    /\ Remove(tail)

NextWide ==
    \/ Fill
    \/ Evict

SpecWide == InitWide /\ [][NextWide]_vars

\* ------------------------------------------------------------ observations
Running == status = "ok"

\* The container after the step.
SelfNext == LruSlab(slots', head', tail', free', len')

\* The slots that hold a payload.
Occupied(self) == {i \in DOMAIN self.slots : self.slots[i].value # NoValue}

\* The MRU-to-LRU order as iteration reports it, and the reverse traversal.
Order(self) == Drain(iter(self), self.slots)
OrderBack(self) == DrainBack(iter(self), self.slots)

\* The free list: the slots alloc hands out, in order, until it reports None
\* (k bounds the walk).
RECURSIVE AllocAll(_, _)
AllocAll(self, k) ==
    LET a == alloc(self)
    IN  IF a.ret = NONE \/ k = 0 THEN <<>> ELSE <<a.ret>> \o AllocAll(a.self, k - 1)

FreeList(self) == AllocAll(self, capacity(self))

\* The payload of every slot, occupied or not.
Payloads(self) == [i \in DOMAIN self.slots |-> self.slots[i].value]

Reverse(seq) == [i \in 1..Len(seq) |-> seq[Len(seq) + 1 - i]]

\* The steps of the calls that return (the program keeps running).
InsertOk(value) == Insert(value) /\ status' = "ok"
RemoveOk(slot) == Remove(slot) /\ status' = "ok"
GetMutOk(slot) == GetMut(slot) /\ status' = "ok"

\* ------------------------------------------------------------------ claims

\* C1. Handle stability: every handle returned by insert(v) and not yet
\* removed still denotes v, whatever calls came in between (growth included):
\* peek(h) yields v, remove(h) returns v, and insert never returns a handle
\* that is currently live.
C1_HandleStability ==
    /\ [](Running => \A h \in DOMAIN live :
              /\ ~peek(Self, h).panic
              /\ peek(Self, h).ret = live[h])
    /\ [][\A h \in DOMAIN live : Remove(h) => status' = "ok" /\ last'.val = live[h]]_vars
    /\ [][\A v \in Values : InsertOk(v) =>
              /\ last'.ret \notin DOMAIN live
              /\ last'.ret \notin Occupied(Self)]_vars

\* C1 witness: an insert has just grown the array while two earlier handles
\* were live, one of them already moved by get_mut or a removal before it.
C1_Witness ==
    /\ Running
    /\ last.op = "insert" /\ last.cap < capacity(Self)
    /\ Cardinality(DOMAIN live) >= 3
    /\ \E h, k \in DOMAIN live : live[h] # live[k]

\* C2. insert(v) makes the returned slot the first element of the MRU-to-LRU
\* iteration, holding v, and leaves the other slots behind it in their order
\* with their values.
C2_InsertIsMru ==
    [][\A v \in Values : InsertOk(v) =>
          /\ Order(SelfNext) = <<last'.ret>> \o Order(Self)
          /\ slots'[last'.ret].value = v
          /\ \A i \in DOMAIN slots : i # last'.ret => slots'[i].value = slots[i].value]_vars

\* C2 witness: a third value was inserted behind which two slots keep their
\* places.
C2_Witness ==
    /\ Running /\ last.op = "insert"
    /\ Len(Order(Self)) >= 3 /\ Order(Self)[1] = last.ret

\* C3. get_mut(s) on an occupied slot s moves s to the front of the
\* MRU-to-LRU order, keeps the relative order of the others, and leaves len,
\* capacity, the free list and every payload as they were.
C3_GetMutFreshens ==
    [][\A s \in Occupied(Self) : GetMut(s) =>
          /\ status' = "ok"
          /\ Order(SelfNext) = <<s>> \o Without(Order(Self), s)
          /\ len_(SelfNext) = len_(Self)
          /\ capacity(SelfNext) = capacity(Self)
          /\ free' = free /\ FreeList(SelfNext) = FreeList(Self)
          /\ Payloads(SelfNext) = Payloads(Self)
          /\ last'.val = slots[s].value]_vars

\* C3 witnesses: get_mut has acted on a middle slot, on the tail and on the
\* head of a list of three or more.
C3_Witness ==
    /\ Running /\ last.op = "get_mut"
    /\ Len(Order(Self)) >= 3
    /\ last.pos > 1 /\ last.pos < Len(Order(Self))
    /\ Order(Self)[1] = last.arg

\* C4. lru() returns the occupied slot whose latest insert or get_mut is the
\* oldest, and None iff the container is empty; removing lru() again and
\* again removes the slots from least to most recently used, len() of them,
\* and leaves lru() reporting None.
RECURSIVE EvictAll(_, _)
EvictAll(self, k) ==
    LET l == lru(self, TRUE)
    IN  IF l.ret = NONE \/ l.panic \/ k = 0
        THEN [out |-> <<>>, self |-> self, panic |-> l.panic]
        ELSE LET r == remove(self, l.ret, TRUE)
                 rest == EvictAll(r.self, k - 1)
             IN  IF r.panic
                 THEN [out |-> <<>>, self |-> r.self, panic |-> TRUE]
                 ELSE [out |-> <<[slot |-> l.ret, val |-> r.ret]>> \o rest.out,
                       self |-> rest.self, panic |-> rest.panic]

C4_LruIsOldest ==
    Running =>
        /\ \A debug \in BOOLEAN :
              /\ ~lru(Self, debug).panic
              /\ lru(Self, debug).ret =
                    IF recency = <<>> THEN NONE ELSE recency[Len(recency)]
              /\ (lru(Self, debug).ret = NONE) <=> (Occupied(Self) = {})
        /\ LET e == EvictAll(Self, len_(Self))
           IN  /\ ~e.panic
               /\ Len(e.out) = len_(Self)
               /\ \A i \in DOMAIN e.out :
                     /\ e.out[i].slot = Reverse(recency)[i]
                     /\ e.out[i].val = live[e.out[i].slot]
               /\ lru(e.self, TRUE).ret = NONE /\ ~lru(e.self, TRUE).panic
               /\ len_(e.self) = 0

\* C4 witness: the least recently used of three was removed after get_mut
\* had changed the order away from the order of insertion.
C4_Witness ==
    /\ Running /\ last.op = "remove"
    /\ last.pos = Len(recency) + 1
    /\ Len(recency) >= 2
    /\ recency[Len(recency)] > recency[1]

\* C5. Handle reuse is LIFO: an insert hands out the handle removed last
\* among those not yet handed out again, without changing capacity; so an
\* insert right after remove(h) returns h, and after removing A and then B
\* the next two inserts return B and then A.
C5_ReuseIsLifo ==
    /\ [][\A v \in Values : Insert(v) /\ freed # <<>> =>
              /\ status' = "ok"
              /\ last'.ret = Head(freed)
              /\ capacity(SelfNext) = capacity(Self)]_vars
    /\ [](Running => \A debug \in BOOLEAN : \A v, w \in Values : \A a \in Occupied(Self) :
              /\ LET r == remove(Self, a, debug)
                     i == insert(r.self, v, debug)
                 IN  /\ ~r.panic /\ ~i.panic
                     /\ i.ret = a
                     /\ capacity(i.self) = capacity(Self)
              /\ \A b \in Occupied(Self) \ {a} :
                    LET r1 == remove(Self, a, debug)
                        r2 == remove(r1.self, b, debug)
                        i1 == insert(r2.self, v, debug)
                        i2 == insert(i1.self, w, debug)
                    IN  /\ ~r1.panic /\ ~r2.panic /\ ~i1.panic /\ ~i2.panic
                        /\ i1.ret = b
                        /\ i2.ret = a
                        /\ capacity(i2.self) = capacity(Self))

\* C5 witness: two handles were removed and an insert has just taken the
\* later one back, the earlier one still waiting for the next insert.
C5_Witness ==
    /\ Running /\ last.op = "insert"
    /\ last.nfreed >= 2 /\ freed # <<>>
    /\ last.cap = capacity(Self)

\* C6. peek, peek_mut, lru, len, capacity, is_empty and iter, with every
\* next and next_back of a traversal, leave head, tail, free, len, the
\* capacity and every slot (links and payload) as they were.
C6_QueriesDoNotRestructure ==
    [][(\/ \E s \in Slots : Peek(s) \/ PeekMut(s)
        \/ Lru \/ Report
        \/ IterNew \/ IterNext \/ IterNextBack \/ IterDrop)
       => UNCHANGED <<slots, head, tail, free, len>>]_vars

\* C6 witness: a traversal from both ends of a list of three or more has
\* run to completion.
C6_Witness ==
    /\ Running /\ it.active /\ it.len = 0
    /\ Len(itFront) >= 2 /\ Len(itBack) >= 1
    /\ freed # <<>>

\* C7. len() is the number of successful inserts minus the number of
\* successful removes, which is the number of slots holding a value;
\* is_empty() holds iff len() is 0; and len() <= capacity().
C7_LenBookkeeping ==
    Running =>
        /\ len_(Self) = net
        /\ len_(Self) = Cardinality(Occupied(Self))
        /\ is_empty(Self) <=> (len_(Self) = 0)
        /\ is_empty(Self) <=> (Occupied(Self) = {})
        /\ len_(Self) <= capacity(Self)

\* C7 witness: a remove has just succeeded in an array that has grown, with
\* values still stored.
C7_Witness ==
    /\ Running /\ last.op = "remove"
    /\ net >= 2 /\ freed # <<>>
    /\ capacity(Self) = 4

\* C8. capacity() never decreases; a step that changes it is an insert, and
\* the new capacity is at least twice the old one and at least 2.
C8_CapacityGrows ==
    [][/\ capacity(SelfNext) >= capacity(Self)
       /\ capacity(SelfNext) # capacity(Self) =>
             /\ \E v \in Values : Insert(v)
             /\ capacity(SelfNext) >= 2 * capacity(Self)
             /\ capacity(SelfNext) >= 2]_vars

\* C8 witness: an insert has just grown a non-empty array.
C8_Witness ==
    /\ Running /\ last.op = "insert"
    /\ last.cap >= 1 /\ capacity(Self) > last.cap

\* C9. capacity() changes only in an insert called with every slot occupied
\* (len() = capacity()); and right after with_capacity(n), capacity() = n.
C9_GrowthOnlyWhenFull ==
    /\ [][capacity(SelfNext) # capacity(Self) =>
              /\ \E v \in Values : Insert(v)
              /\ len_(Self) = capacity(Self)
              /\ Occupied(Self) = DOMAIN slots]_vars
    /\ [][\A v \in Values : Insert(v) /\ len_(Self) < capacity(Self) =>
              capacity(SelfNext) = capacity(Self) /\ status' = "ok"]_vars
    /\ [](last.op = "with_capacity" => capacity(Self) = last.arg /\ len_(Self) = 0)

\* C9 witness: with_capacity(3) was filled by three inserts and still has
\* its three slots.
C9_Witness ==
    /\ Running /\ last.op = "insert"
    /\ capacity(Self) = 3 /\ len_(Self) = 3
    /\ freed = <<>>

\* C10. An iterator made by iter(), stepped by next() and next_back() in any
\* interleaving, yields exactly len() items, each occupied slot's value
\* once: those from next() in MRU-to-LRU order, those from next_back() in
\* LRU-to-MRU order, the two ends never crossing; its reported length is
\* what remains; and once it is used up both calls return None.
C10_IterYieldsEachOnce ==
    (Running /\ it.active) =>
        LET nf == Len(itFront)
            nb == Len(itBack)
            n  == Len(recency)
        IN  /\ len_(Self) = n
            /\ nf + nb <= n
            /\ it.len = n - nf - nb
            /\ \A i \in 1..nf :
                  /\ itFront[i].slot = recency[i]
                  /\ itFront[i].val = live[recency[i]]
            /\ \A i \in 1..nb :
                  /\ itBack[i].slot = recency[n + 1 - i]
                  /\ itBack[i].val = live[recency[n + 1 - i]]
            /\ (nf + nb = n) <=>
                  /\ iter_next(it, slots).slot = NONE
                  /\ iter_next_back(it, slots).slot = NONE
            /\ ~iter_next(it, slots).panic
            /\ ~iter_next_back(it, slots).panic
            /\ (nf + nb = n) =>
                  {itFront[i].slot : i \in 1..nf} \cup {itBack[i].slot : i \in 1..nb}
                     = Occupied(Self)
            /\ (last.op \in {"next", "next_back"} /\ last.ret = NONE) => nf + nb = n

\* C10 witness: a traversal of four items, two taken from each end, is used
\* up and a further next() has returned None.
C10_Witness ==
    /\ Running /\ it.active
    /\ Len(itFront) = 2 /\ Len(itBack) = 2
    /\ last.op = "next" /\ last.ret = NONE

\* The slots of the array that hold no payload.
Vacant(self) == DOMAIN self.slots \ Occupied(self)

\* C11. remove(slot) on a slot of the array that holds no value (never
\* inserted into, or removed already) panics instead of returning a value.
C11_RemoveVacantFails ==
    /\ [](Running => \A s \in Vacant(Self) : \A debug \in BOOLEAN :
              remove(Self, s, debug).panic)
    /\ [][\A s \in Vacant(Self) : Remove(s) =>
              status' = "panicked" /\ last'.val = NoValue]_vars

\* C11 witness: a handle was removed a second time, other values still being
\* stored, and the call panicked.
C11_Witness ==
    /\ status = "panicked" /\ last.op = "remove"
    /\ last.arg \in DOMAIN slots
    /\ Pos(freed, last.arg) > 0
    /\ net >= 1

\* C12. get_mut, peek and peek_mut panic when given an index >= capacity()
\* or a slot that is free; get_mut on a free slot panics with head, tail,
\* free, len and every slot as they were.
C12_AccessVacantFails ==
    /\ [](Running => \A s \in Vacant(Self) \cup {capacity(Self), NONE} :
              /\ peek(Self, s).panic
              /\ peek_mut(Self, s).panic
              /\ \A debug \in BOOLEAN :
                    /\ get_mut(Self, s, debug).panic
                    /\ get_mut(Self, s, debug).self = Self)
    /\ [][\A s \in Slots \ Occupied(Self) :
              (GetMut(s) \/ Peek(s) \/ PeekMut(s)) =>
                  /\ status' = "panicked"
                  /\ UNCHANGED <<slots, head, tail, free, len>>]_vars

\* C12 witness: get_mut was called on a freed slot while two values were
\* stored, and panicked.
C12_Witness ==
    /\ status = "panicked" /\ last.op = "get_mut"
    /\ last.arg \in Vacant(Self)
    /\ Pos(freed, last.arg) > 0
    /\ net >= 2

\* A link field holds the sentinel or an index of the array.
ValidIndex(self, i) == i = NONE \/ (i >= 0 /\ i < capacity(self))

LinksValid(self) ==
    /\ ValidIndex(self, self.head)
    /\ ValidIndex(self, self.tail)
    /\ ValidIndex(self, self.free)
    /\ \A i \in DOMAIN self.slots :
          /\ ValidIndex(self, self.slots[i].next)
          /\ ValidIndex(self, self.slots[i].prev)

\* The insert about to run has no free slot and an array whose doubling
\* does not fit in the index type.
CannotDouble(self) == self.free = NONE /\ 2 * capacity(self) > NONE /\ capacity(self) >= 2

\* C13. With an index type of IndexBits bits: with_capacity(NONE) is
\* rejected; while the program runs capacity() < NONE and head, tail, free
\* and every next and prev is NONE or an index below capacity(); and an
\* insert whose doubling does not fit in the index type panics, in either
\* build, instead of going on with a wrapped capacity.
C13_IndexRange ==
    /\ [](last.op = "with_capacity" => (status = "panicked" <=> last.arg = NONE))
    /\ [](Running => capacity(Self) < NONE /\ LinksValid(Self))
    /\ [](Running /\ CannotDouble(Self) => \A debug \in BOOLEAN : \A v \in Values :
              insert(Self, v, debug).panic)
    /\ [][Fill /\ CannotDouble(Self) =>
              /\ status' = "panicked"
              /\ capacity(SelfNext) = capacity(Self)]_vars

\* C13 witness: a full array of more than half the index range, its order
\* already rotated by evictions, was asked to insert and panicked.
C13_Witness ==
    /\ status = "panicked" /\ last.op = "insert"
    /\ net = capacity(Self) /\ last.cap = capacity(Self)
    /\ 2 * capacity(Self) > NONE
    /\ recency # <<>> /\ recency[1] < recency[Len(recency)]

\* C14 as stated: a growth takes the capacity to exactly max(2, 2 x old).
C14_Original ==
    [][capacity(SelfNext) # capacity(Self) =>
          capacity(SelfNext) =
              IF 2 * capacity(Self) > 2 THEN 2 * capacity(Self) ELSE 2]_vars

\* C14, amended. When an insert grows the array, the new capacity is exactly
\* 2 x max(2, old capacity): 4 for the old capacities 0, 1 and 2, and twice
\* the old capacity above that.
C14_GrowthFactor ==
    [][/\ capacity(SelfNext) # capacity(Self) =>
             capacity(SelfNext) =
                 IF capacity(Self) <= 2 THEN 4 ELSE 2 * capacity(Self)
       /\ (Fill /\ free = NONE /\ status' = "ok") =>
             capacity(SelfNext) # capacity(Self)]_vars

\* C14 witness: an insert has grown an array of one slot to four.
C14_Witness ==
    /\ Running /\ last.op = "insert"
    /\ last.cap = 1 /\ capacity(Self) = 4

\* The sequence lo, lo + 1, ..., hi (empty when hi < lo).
Ascending(lo, hi) == [i \in 1..(hi - lo + 1) |-> lo + i - 1]

\* C18. An insert that grows returns the old capacity and leaves free at old
\* capacity + 1, the slots above it chained in ascending order; inserts that
\* find no freed handle waiting take the untouched slots in ascending
\* order, up to capacity - 1; and a fresh with_capacity(n) hands out
\* 0, 1, ..., n - 1.
C18_FreshHandlesAscend ==
    /\ [][(Fill /\ free = NONE /\ status' = "ok") =>
              /\ last'.ret = capacity(Self)
              /\ free' = capacity(Self) + 1
              /\ FreeList(SelfNext) =
                    Ascending(capacity(Self) + 1, capacity(SelfNext) - 1)]_vars
    /\ [][(Fill /\ freed = <<>> /\ status' = "ok") =>
              /\ free # NONE => last'.ret = free /\ capacity(SelfNext) = capacity(Self)
              /\ (last.op = "insert" /\ last.nfreed = 0) => last'.ret = last.ret + 1
              /\ last.op = "with_capacity" => last'.ret = 0]_vars
    /\ [](Running =>
              LET fl == FreeList(Self)
              IN  /\ Len(freed) <= Len(fl)
                  /\ fl = freed \o Ascending(capacity(Self) - (Len(fl) - Len(freed)),
                                            capacity(Self) - 1))
    /\ [](Running /\ last.op = "with_capacity" =>
              FreeList(Self) = Ascending(0, last.arg - 1))

\* C18 witness: an array that started with three slots has grown to six and
\* to twelve, and the last of the twelve has just been handed out.
C18_Witness ==
    /\ Running /\ last.op = "insert"
    /\ capacity(Self) = 12 /\ last.ret = 11
    /\ recency = Reverse(Ascending(0, 11))

\* The slots met from i by following next (fwd) or prev, up to the sentinel.
\* The walk gives up, and appends NONE, after k slots or at an index outside
\* the array, so a cyclic or dangling chain shows as a NONE in the result.
RECURSIVE Chain(_, _, _, _)
Chain(self, i, fwd, k) ==
    IF i = NONE THEN <<>>
    ELSE IF k = 0 \/ i \notin DOMAIN self.slots THEN <<NONE>>
    ELSE <<i>> \o Chain(self, IF fwd THEN self.slots[i].next ELSE self.slots[i].prev,
                        fwd, k - 1)

RecencyChain(self) == Chain(self, self.head, TRUE, capacity(self))
RecencyChainBack(self) == Chain(self, self.tail, FALSE, capacity(self))
FreeChain(self) == Chain(self, self.free, TRUE, capacity(self))

Range(seq) == {seq[i] : i \in DOMAIN seq}
NoRepeat(seq) == Cardinality(Range(seq)) = Len(seq)

\* C15. While the program runs, every slot index below capacity() is on
\* exactly one of the two chains, the recency list (from head by next) or
\* the free list (from free by next); a slot holds a value iff it is on the
\* recency list; the free chain is acyclic, ends at NONE and visits exactly
\* capacity() - len() slots, none of which holds a value.
C15_Partition ==
    Running =>
        LET r == RecencyChain(Self)
            f == FreeChain(Self)
        IN  /\ NONE \notin Range(r) \cup Range(f)
            /\ NoRepeat(r) /\ NoRepeat(f)
            /\ Range(r) \cap Range(f) = {}
            /\ Range(r) \cup Range(f) = DOMAIN slots
            /\ Range(r) = Occupied(Self)
            /\ Len(f) = capacity(Self) - len
            /\ \A i \in Range(f) : slots[i].value = NoValue
            /\ free # NONE => slots[free].value = NoValue

\* C15 witness: after growth to four slots and removals, two slots are on
\* the recency list and two, handed back in an order that is not the array
\* order, are on the free list.
C15_Witness ==
    /\ Running /\ capacity(Self) = 4
    /\ Len(RecencyChain(Self)) = 2 /\ Len(FreeChain(Self)) = 2
    /\ Len(freed) = 2 /\ freed[1] < freed[2]
    /\ last.op = "remove" /\ last.cap = 4

\* C16. While the program runs, following next from head visits exactly
\* len() occupied slots, the last of them tail, and then NONE; following
\* prev from tail visits the same slots in reverse, ending at head; the
\* links of every occupied slot are symmetric; and an occupied slot has
\* prev = NONE only if it is head, so the assertion in freshen holds for it.
C16_RecencyList ==
    Running =>
        LET r == RecencyChain(Self)
            b == RecencyChainBack(Self)
        IN  /\ NONE \notin Range(r)
            /\ Len(r) = len
            /\ Range(r) \subseteq Occupied(Self)
            /\ r # <<>> => r[1] = head /\ r[Len(r)] = tail
            /\ b = Reverse(r)
            /\ \A s \in Occupied(Self) :
                  /\ slots[s].prev # NONE =>
                        /\ slots[s].prev \in DOMAIN slots
                        /\ slots[slots[s].prev].next = s
                  /\ slots[s].next # NONE =>
                        /\ slots[s].next \in DOMAIN slots
                        /\ slots[slots[s].next].prev = s
                  /\ slots[s].prev = NONE => s = head
                  /\ \A debug \in BOOLEAN : ~freshen(Self, s, debug).panic

\* C16 witness: get_mut has moved the middle of three linked slots to the
\* head.
C16_Witness ==
    /\ Running /\ last.op = "get_mut" /\ last.pos = 2
    /\ Len(RecencyChain(Self)) = 3
    /\ head = last.arg /\ slots[tail].prev # head

\* C17. While the program runs, head = NONE iff tail = NONE iff len() = 0,
\* so the assertion in lru() does not fail.
C17_EmptyIffNoEnds ==
    Running =>
        /\ head = NONE <=> tail = NONE
        /\ tail = NONE <=> len = 0
        /\ \A debug \in BOOLEAN : ~lru(Self, debug).panic

\* C17 witness: the last element of a list has been removed, leaving head,
\* tail and len all empty in an array that has slots.
C17_Witness ==
    /\ Running /\ last.op = "remove" /\ last.pos = 1
    /\ len = 0 /\ head = NONE /\ tail = NONE
    /\ Len(freed) >= 2

\* C19. remove(s) of an occupied slot s, wherever it stands in the list,
\* returns and deletes exactly s from the MRU-to-LRU order: the other
\* occupied slots keep their relative order, in both directions of
\* traversal, and their values, and capacity() is unchanged.
C19_RemoveDeletesOne ==
    [][\A s \in Occupied(Self) : Remove(s) =>
          /\ status' = "ok"
          /\ last'.val = slots[s].value
          /\ Order(SelfNext) = Without(Order(Self), s)
          /\ OrderBack(SelfNext) = Reverse(Without(Order(Self), s))
          /\ Occupied(SelfNext) = Occupied(Self) \ {s}
          /\ \A i \in Occupied(Self) \ {s} : slots'[i].value = slots[i].value
          /\ capacity(SelfNext) = capacity(Self)]_vars

\* C19 witness: the middle one of three elements has been removed.
C19_Witness ==
    /\ Running /\ last.op = "remove" /\ last.pos = 2
    /\ net = 2 /\ Order(Self) = recency /\ Len(recency) = 2

\* The link fields of the container and of every slot.
Links(self) ==
    <<self.head, self.tail, self.free, self.len,
      [i \in DOMAIN self.slots |-> <<self.slots[i].next, self.slots[i].prev>>]>>

\* C20 as stated: a remove of an in-bounds slot without a value fails with
\* head, tail, free, len and every next and prev as they were before.
C20_Original ==
    [][\A s \in Vacant(Self) : Remove(s) => Links(SelfNext) = Links(Self)]_vars

\* C20, amended. A remove of an in-bounds slot without a value fails only
\* after the links were rewritten: at the failure the slot has been
\* unlinked as if it were on the recency list (head holds its old next, and
\* tail is NONE if that was NONE) and pushed on the free list (free is the
\* slot, its prev NONE, its next the old free), and len has been
\* decremented unless the decrement itself overflowed in a build with
\* overflow checks; only the stored values and capacity() are as before.
C20_RemoveFailsAfterRelinking ==
    [][\A s \in Vacant(Self) : Remove(s) =>
          /\ status' = "panicked"
          /\ free' = s
          /\ slots'[s].next = free /\ slots'[s].prev = NONE
          /\ head' = slots[s].next
          /\ tail' = IF slots[s].next = NONE THEN NONE ELSE tail
          /\ len' \in IF len = 0 THEN {0, NONE} ELSE {len - 1}
          /\ Links(SelfNext) # Links(Self)
          /\ Payloads(SelfNext) = Payloads(Self)
          /\ capacity(SelfNext) = capacity(Self)]_vars

\* C20 witness: with an element in the list, remove of a slot without a
\* value has failed and left head on a slot without a value.
C20_Witness ==
    /\ status = "panicked" /\ last.op = "remove" /\ last.arg \in DOMAIN slots
    /\ net >= 1 /\ free = last.arg
    /\ head \in DOMAIN slots /\ slots[head].value = NoValue

====
